---- MODULE Spec2Model ----
(***************************************************************************)
(* Early-stopping controllers and solvers of the repository:               *)
(*   FairnessEarlyStopping  (src/fairness_early_stopping.py)               *)
(*   ProximalEarlyStopping  (src/proximal_early_stopping.py)               *)
(*   DPSGDEarlyStopping     (src/dp_early_stopping.py)                     *)
(*   ComponentEarlyStopping (src/component_early_stopping.py)              *)
(*                                                                         *)
(* Numbers.  Python floats are modelled by integers (exact arithmetic):    *)
(* metric values, losses, matrix entries and parameters are small          *)
(* integers; eps_per_iter is counted in hundredths (5 stands for 0.05);    *)
(* tol is the fraction num/den; an objective value is stored doubled       *)
(* (0.5*r.r + lam*|x|_1 becomes r.r + 2*lam*|x|_1).  np.inf is Inf, above  *)
(* every value the model feeds.  Optional values are sequences: None is    *)
(* <<>> and a present value v is <<v>>.                                    *)
(*                                                                         *)
(* Each object is one record variable whose fields carry the source's      *)
(* attribute and local names; pc = "absent" means the object was not       *)
(* constructed in this behaviour.  The module-level function l1_proximal   *)
(* has a specification of its own (SpecL1).                                *)
(***************************************************************************)
EXTENDS Integers, Sequences, FiniteSets, TLC

\* np_random is the state of numpy's process-wide generator (np.random), ces the
\* ComponentEarlyStopping tracker with its model, l1 one evaluation of the
\* module-level function l1_proximal
VARIABLES fes, prox, dp, np_random, ces, l1

vars == <<fes, prox, dp, np_random, ces, l1>>

None == <<>>
Some(v) == <<v>>

\* np.inf (initial best_metric / best_val)
Inf == 1000000

(***************************************************************************)
(* Bounds of the model                                                     *)
(***************************************************************************)
\* FairnessEarlyStopping: patience in -1..MaxPatience, min_delta in
\* 0..MaxMinDelta, metric values in 0..MaxMetric, at most MaxSteps calls
MaxPatience == 3
MaxMinDelta == 1
MaxMetric == 2
MaxSteps == 5
\* ProximalEarlyStopping: patience in 0..ProxMaxPatience, max_iter in
\* 0..ProxMaxIter, at most MaxFits calls of fit on one instance
ProxMaxPatience == 2
ProxMaxIter == 5
MaxFits == 2
\* l1_proximal: entries in -MaxEntry..MaxEntry, thresholds in 0..MaxThreshold
MaxEntry == 2
MaxThreshold == 3
\* DPSGDEarlyStopping: patience in 0..DpMaxPatience, max_iter in 0..DpMaxIter,
\* validation losses in 0..MaxLoss
DpMaxPatience == 2
DpMaxIter == 3
MaxLoss == 2
\* ComponentEarlyStopping: at most MaxResets calls of reset
MaxResets == 2

(***************************************************************************)
(* FairnessEarlyStopping                                                   *)
(***************************************************************************)
\* patience is an unchecked int field: a negative one is accepted too
Patiences == (0 - 1)..MaxPatience
MinDeltas == 0..MaxMinDelta
\* values metric_fn returns (a fairness gap, scaled to integers)
MetricValues == 0..MaxMetric
\* the epoch number the training loop gives its first call of step
FirstEpochs == {0, 1}

\* the metric_fn field: the default function, or None
MetricFns == {Some("demographic_parity_difference"), None}

\* dataclass fields and __post_init__; epochs, values, rets log the calls of
\* step that returned (epoch argument, metric value, returned bool), raised
\* the exceptions of the calls that did not
FesNew(patience, min_delta, epoch0, metric_fn) ==
    [pc |-> "live", patience |-> patience, min_delta |-> min_delta,
     epoch0 |-> epoch0, metric_fn |-> metric_fn,
     best_metric |-> Inf, num_bad_epochs |-> 0, stopped_epoch |-> None,
     epochs |-> <<>>, values |-> <<>>, rets |-> <<>>, raised |-> <<>>]

MetricFnNeverMissing(metric_fn) == FALSE

\* line 121: if self.metric_fn is None
MetricFnMissing(metric_fn) == metric_fn = None

ImprovedOrEqual(metric_value, min_delta, best_metric) ==
    metric_value + min_delta <= best_metric

ImprovedMaximize(metric_value, min_delta, best_metric) ==
    metric_value - min_delta > best_metric

\* line 124: metric_value + self.min_delta < self.best_metric
Improved(metric_value, min_delta, best_metric) ==
    metric_value + min_delta < best_metric

PatienceExceeded(num_bad_epochs, patience) == num_bad_epochs > patience

\* line 129: self.num_bad_epochs >= self.patience
PatienceReached(num_bad_epochs, patience) == num_bad_epochs >= patience

\* step(epoch, ...) with metric_fn returning metric_value
FesStepResult(s, epoch, metric_value) ==
    LET improved == Improved(metric_value, s.min_delta, s.best_metric)
        best == IF improved THEN metric_value ELSE s.best_metric
        bad == IF improved THEN 0 ELSE s.num_bad_epochs + 1
        stop == PatienceReached(bad, s.patience)
    IN  [s EXCEPT !.best_metric = best,
                  !.num_bad_epochs = bad,
                  !.stopped_epoch = IF stop THEN Some(epoch) ELSE @,
                  !.epochs = Append(@, epoch),
                  !.values = Append(@, metric_value),
                  !.rets = Append(@, stop)]

InitFairness ==
    /\ fes \in {FesNew(p, d, e, f) : p \in Patiences, d \in MinDeltas,
                                     e \in FirstEpochs, f \in MetricFns}
    /\ prox = [pc |-> "absent"]
    /\ dp = [pc |-> "absent"]
    /\ np_random = 0
    /\ ces = [pc |-> "absent"]
    /\ l1 = [pc |-> "absent"]

\* one call of step; the training loop numbers its calls epoch0, epoch0+1, ...
\* lines 121-122: without a metric_fn the call raises before anything else
FesStep ==
    /\ fes.pc = "live"
    /\ Len(fes.rets) + Len(fes.raised) < MaxSteps
    /\ IF MetricFnMissing(fes.metric_fn)
       THEN fes' = [fes EXCEPT !.raised = Append(@, "ValueError")]
       ELSE \E metric_value \in MetricValues :
               fes' = FesStepResult(fes, fes.epoch0 + Len(fes.rets), metric_value)
    /\ UNCHANGED <<prox, dp, np_random, ces, l1>>

NextFairness == FesStep

SpecFairness == InitFairness /\ [][NextFairness]_vars

(***************************************************************************)
(* Vectors and matrices (numpy arrays): a vector is a sequence of integers,*)
(* a matrix a sequence of rows                                             *)
(***************************************************************************)
RECURSIVE SumSeq(_)
SumSeq(v) == IF v = <<>> THEN 0 ELSE Head(v) + SumSeq(Tail(v))

Abs(a) == IF a < 0 THEN 0 - a ELSE a
Sign(a) == IF a > 0 THEN 1 ELSE IF a < 0 THEN 0 - 1 ELSE 0
Maximum(a, b) == IF a >= b THEN a ELSE b

Zeros(n) == [i \in 1..n |-> 0]
Ones(n) == [i \in 1..n |-> 1]
Identity(n) == [i \in 1..n |-> [j \in 1..n |-> IF i = j THEN 1 ELSE 0]]
VecSub(u, v) == [i \in 1..Len(u) |-> u[i] - v[i]]
VecScale(c, v) == [i \in 1..Len(v) |-> c * v[i]]
Dot(u, v) == SumSeq([i \in 1..Len(u) |-> u[i] * v[i]])
SqNorm(v) == Dot(v, v)
MatVec(A, v) == [i \in 1..Len(A) |-> Dot(A[i], v)]
Transpose(A) == [j \in 1..Len(A[1]) |-> [i \in 1..Len(A) |-> A[i][j]]]

(***************************************************************************)
(* ProximalEarlyStopping                                                   *)
(***************************************************************************)
L1ProximalNoClamp(x, threshold) ==
    [i \in 1..Len(x) |-> Sign(x[i]) * (Abs(x[i]) - threshold)]

\* np.sign(x) * np.maximum(np.abs(x) - threshold, 0.0)
l1_proximal(x, threshold) ==
    [i \in 1..Len(x) |-> Sign(x[i]) * Maximum(Abs(x[i]) - threshold, 0)]

\* one evaluation of l1_proximal on a finite vector of one or two entries in
\* -MaxEntry..MaxEntry with a threshold in 0..MaxThreshold
L1Inputs ==
    {[pc |-> "called", x |-> x, threshold |-> th, out |-> None] :
        x \in UNION {[1..n -> (0 - MaxEntry)..MaxEntry] : n \in {1, 2}},
        th \in 0..MaxThreshold}

InitL1 ==
    /\ l1 \in L1Inputs
    /\ fes = [pc |-> "absent"]
    /\ prox = [pc |-> "absent"]
    /\ dp = [pc |-> "absent"]
    /\ np_random = 0
    /\ ces = [pc |-> "absent"]

\* line 48: the function returns
L1Return ==
    /\ l1.pc = "called"
    /\ l1' = [l1 EXCEPT !.pc = "returned",
                        !.out = Some(l1_proximal(l1.x, l1.threshold))]
    /\ UNCHANGED <<fes, prox, dp, np_random, ces>>

NextL1 == L1Return

SpecL1 == InitL1 /\ [][NextL1]_vars

\* A float that is not finite (nan) is the marker NaN.  IEEE arithmetic
\* propagates it: a product or sum with a nan operand is nan (0 * nan too, so
\* one nan entry of x or of the response makes every entry of A x - y, of the
\* gradient and of the next x nan), and every comparison with nan is False.
NaN == 0 - Inf
AllFinite(v) == \A i \in 1..Len(v) : v[i] # NaN
AllNaN(n) == [i \in 1..n |-> NaN]

\* _objective, doubled: ||Ax - y||^2 + 2*lam*||x||_1
Objective2(design, response, lam, x) ==
    IF ~AllFinite(x) \/ ~AllFinite(response) THEN NaN
    ELSE LET residual == VecSub(MatVec(design, x), response)
         IN  Dot(residual, residual) + 2 * lam * SumSeq([i \in 1..Len(x) |-> Abs(x[i])])

ProximalUpdateAscent(design, response, lam, step_size, x) ==
    IF ~AllFinite(x) \/ ~AllFinite(response) THEN AllNaN(Len(x))
    ELSE LET grad == MatVec(Transpose(design), VecSub(MatVec(design, x), response))
             z == VecSub(x, VecScale(0 - step_size, grad))
         IN  l1_proximal(z, lam * step_size)

\* lines 125-128: grad = A^T (A x - y); z = x - step_size*grad; prox(z, lam*step_size)
ProximalUpdate(design, response, lam, step_size, x) ==
    IF ~AllFinite(x) \/ ~AllFinite(response) THEN AllNaN(Len(x))
    ELSE LET grad == MatVec(Transpose(design), VecSub(MatVec(design, x), response))
             z == VecSub(x, VecScale(step_size, grad))
         IN  l1_proximal(z, lam * step_size)

\* lines 140-143: ||x - prev_x|| / (||prev_x|| + 1e-12) < tol, over the reals.
\* With integer vectors and tol = num/den > 0 this is
\* den^2 * ||x - prev_x||^2 <= num^2 * ||prev_x||^2  (the 1e-12 decides the tie
\* and the case prev_x = 0, where only x = prev_x is below tol).  A nan
\* rel_change is not below tol.
RelChangeBelowTol(x, prev_x, tol) ==
    /\ AllFinite(x) /\ AllFinite(prev_x)
    /\ tol.num > 0
    /\ SqNorm(VecSub(x, prev_x)) <= (tol.num * tol.num * SqNorm(prev_x)) \div (tol.den * tol.den)

CounterKept(patience_counter, below) ==
    IF below THEN patience_counter + 1 ELSE patience_counter

\* lines 143-146: the consecutive counter
CounterUpdate(patience_counter, below) ==
    IF below THEN patience_counter + 1 ELSE 0

\* the defaults of the dataclass fields
DefaultMaxIter == 500
DefaultPatience == 5
DefaultTol == [num |-> 1, den |-> 10000]

Designs ==
    {<<<<0>>>>, <<<<1>>>>, <<<<1>>, <<1>>>>, <<<<1, 1>>, <<0, 1>>>>, Identity(2)}
ResponseValues == {0 - 1, 0, 2}
Responses(design) == [1..Len(design) -> ResponseValues]
\* responses with a missing measurement (nan)
NonFiniteResponses == {<<NaN>>, <<0, NaN>>}
Lams == {0, 1}
\* step_size is an unchecked float field: 0 is accepted too
StepSizes == {0, 1}
Tols == {DefaultTol, [num |-> 3, den |-> 1], [num |-> 0, den |-> 1]}

\* dataclass fields and __post_init__; patience_counter, prev_x, t are the
\* locals of fit, next_t the position of its range iterator, below the log of
\* (rel_change < tol) per iteration of the current call, broke whether the
\* loop was left by break, calls the number of calls of fit
ProxNew(design, response, lam, step_size, max_iter, tol, patience) ==
    [pc |-> "idle", design |-> design, response |-> response, lam |-> lam,
     step_size |-> step_size, max_iter |-> max_iter, tol |-> tol,
     patience |-> patience,
     x |-> Zeros(Len(design[1])), obj_values |-> <<>>, history |-> <<>>,
     patience_counter |-> 0, prev_x |-> Zeros(Len(design[1])), t |-> None,
     next_t |-> 0, below |-> <<>>, broke |-> FALSE, calls |-> 0,
     stop_iter |-> None, error |-> None]

\* the end-to-end run: identity design (n = 5), response of ones, lam = 0,
\* step_size = 1, default tol, patience and max_iter
EndToEnd ==
    ProxNew(Identity(5), Ones(5), 0, 1, DefaultMaxIter, DefaultTol, DefaultPatience)

InitProximal ==
    /\ prox \in {ProxNew(d, r, l, st, m, tl, p) :
                    d \in Designs,
                    r \in UNION {Responses(dd) : dd \in Designs} \cup NonFiniteResponses,
                    l \in Lams, st \in StepSizes, m \in 0..ProxMaxIter,
                    tl \in Tols, p \in 0..ProxMaxPatience}
             \cup {EndToEnd}
    /\ Len(prox.response) = Len(prox.design)
    /\ fes = [pc |-> "absent"]
    /\ dp = [pc |-> "absent"]
    /\ np_random = 0
    /\ ces = [pc |-> "absent"]
    /\ l1 = [pc |-> "absent"]

\* lines 120-121: fit is called (again) on the instance
ProxFit ==
    /\ prox.pc \in {"idle", "done", "error"}
    /\ prox.calls < MaxFits
    /\ prox' = [prox EXCEPT !.pc = "loop", !.patience_counter = 0,
                            !.prev_x = prox.x, !.t = None, !.next_t = 0,
                            !.below = <<>>, !.broke = FALSE, !.calls = @ + 1,
                            !.stop_iter = None, !.error = None]
    /\ UNCHANGED <<fes, dp, np_random, ces, l1>>

\* lines 123-149: one iteration of the loop (callback is None)
ProxIterate ==
    /\ prox.pc = "loop"
    /\ prox.next_t < prox.max_iter
    /\ LET x == ProximalUpdate(prox.design, prox.response, prox.lam, prox.step_size, prox.x)
           obj == Objective2(prox.design, prox.response, prox.lam, x)
           below == RelChangeBelowTol(x, prox.prev_x, prox.tol)
           counter == CounterUpdate(prox.patience_counter, below)
           break == counter >= prox.patience
       IN  prox' = [prox EXCEPT !.t = Some(prox.next_t), !.next_t = @ + 1,
                                !.x = x,
                                !.obj_values = Append(@, obj),
                                !.history = Append(@, x),
                                !.below = Append(@, below),
                                !.patience_counter = counter,
                                !.broke = break,
                                !.pc = IF break THEN "exit" ELSE "loop",
                                !.prev_x = IF break THEN @ ELSE x]
    /\ UNCHANGED <<fes, dp, np_random, ces, l1>>

\* line 151: return self.x, t, self.obj_values; t is unbound if the loop body
\* never ran
ProxReturn ==
    /\ \/ prox.pc = "exit"
       \/ prox.pc = "loop" /\ prox.next_t >= prox.max_iter
    /\ prox' = IF prox.t = None
               THEN [prox EXCEPT !.pc = "error", !.error = Some("UnboundLocalError")]
               ELSE [prox EXCEPT !.pc = "done", !.stop_iter = prox.t]
    /\ UNCHANGED <<fes, dp, np_random, ces, l1>>

NextProximal == ProxFit \/ ProxIterate \/ ProxReturn

SpecProximal == InitProximal /\ [][NextProximal]_vars

(***************************************************************************)
(* DPSGDEarlyStopping                                                      *)
(***************************************************************************)
\* the defaults of the dataclass fields (eps_per_iter 0.05 in hundredths)
DpDefaultPatience == 10
DpDefaultEpsPerIter == 5
\* the budget of the ledger example: stop_iter = 9 when it is exhausted
LedgerMaxIter == 10
\* the budget of the bad-count example
BadCountMaxIter == 5

\* eps_per_iter, in hundredths
EpsValues == {0 - DpDefaultEpsPerIter, 0, DpDefaultEpsPerIter}
\* what loss_fn and grad_fn (one feature) return
LossValues == 0..MaxLoss
GradValues == {0 - 1, 1}

\* np.random, the generator of the numpy module that every caller in the
\* process shares: its state np_random determines the next standard normal
\* draw, and every draw advances it.  The model's generator cycles through
\* NoiseDraws; state s yields NoiseDraws[s + 1].
NoiseDraws == <<0, 1, 1, 0>>
NpRandomStates == 0..(Len(NoiseDraws) - 1)
\* line 98: np.random.normal(0.0, noise_std, size=grad.shape), one feature
NpRandomNormal(state, noise_std) ==
    [noise |-> noise_std * NoiseDraws[state + 1],
     state |-> (state + 1) % Len(NoiseDraws)]

\* a parameter array: its value v and, as its identity, the iteration that
\* created it (None for the initial array)
Params(v, iter) == [v |-> v, iter |-> iter]

\* dataclass fields; loss_values and grad_values are the values the supplied
\* loss_fn and grad_fn may return; the other fields are the locals of fit
\* (next_t the position of its range iterator, broke whether the loop was left
\* by break, iterates the log of params after each iteration) and its result;
\* fits is the number of calls of fit the driving script makes on the
\* instance, calls the number made so far, results the log of what the calls
\* returned (best_params by value, stop_iter, total_eps)
DpNew(noise_std, lr, max_iter, patience, eps_per_iter, loss_values, grad_values, fits) ==
    [pc |-> "idle", noise_std |-> noise_std, lr |-> lr, max_iter |-> max_iter,
     patience |-> patience, eps_per_iter |-> eps_per_iter,
     loss_values |-> loss_values, grad_values |-> grad_values,
     params |-> Params(<<0>>, None), best_val |-> Inf,
     best_params |-> Params(<<0>>, None), val_history |-> <<>>,
     bad_count |-> 0, t |-> None, next_t |-> 0, broke |-> FALSE,
     iterates |-> <<>>,
     ret_params |-> None, stop_iter |-> None, total_eps |-> None,
     error |-> None, fits |-> fits, calls |-> 0, results |-> <<>>]

\* a run of the default patience and eps_per_iter whose validation loss and
\* gradient are constant and whose noise_std is 0, with a budget of 10
LedgerExample ==
    DpNew(0, 1, LedgerMaxIter, DpDefaultPatience, DpDefaultEpsPerIter, {1}, {1}, 1)

\* instances on which fit is called up to MaxFits times with the same
\* arguments: loss_fn and grad_fn are deterministic (constant), so that the
\* noise is all that can tell two calls apart
RepeatedRuns ==
    {DpNew(sd, 1, m, p, DpDefaultEpsPerIter, {1}, {1}, MaxFits) :
        sd \in {0, 1}, m \in 0..DpMaxIter, p \in 0..DpMaxPatience}

\* a run of patience 2 without noise whose budget of BadCountMaxIter leaves
\* room for a bad iteration, a new best and two more bad iterations
BadCountExample ==
    DpNew(0, 1, BadCountMaxIter, 2, DpDefaultEpsPerIter, LossValues, {1}, 1)

\* the process may have drawn from np.random before: any generator state
InitDP ==
    /\ dp \in {DpNew(1, 1, m, p, e, LossValues, GradValues, 1) :
                  m \in 0..DpMaxIter, p \in 0..DpMaxPatience, e \in EpsValues}
           \cup {LedgerExample, BadCountExample} \cup RepeatedRuns
    /\ np_random \in NpRandomStates
    /\ fes = [pc |-> "absent"]
    /\ prox = [pc |-> "absent"]
    /\ ces = [pc |-> "absent"]
    /\ l1 = [pc |-> "absent"]

\* lines 85-92: fit is called (again) with initial_params = None; the locals
\* of the call start afresh, np.random is left as the process left it
DpFit ==
    /\ dp.pc \in {"idle", "done", "error"}
    /\ dp.calls < dp.fits
    /\ dp' = [dp EXCEPT !.pc = "loop", !.params = Params(<<0>>, None),
                        !.best_val = Inf, !.best_params = Params(<<0>>, None),
                        !.val_history = <<>>, !.bad_count = 0,
                        !.t = None, !.next_t = 0, !.broke = FALSE,
                        !.iterates = <<>>, !.ret_params = None,
                        !.stop_iter = None, !.total_eps = None,
                        !.error = None, !.calls = @ + 1]
    /\ UNCHANGED <<fes, prox, np_random, ces, l1>>

BeatsOrTiesBest(val_loss, best_val) == val_loss <= best_val

\* line 107: val_loss < best_val
BeatsBest(val_loss, best_val) == val_loss < best_val

DpBadCountKept(bad_count, better) == IF better THEN bad_count ELSE bad_count + 1

\* lines 107-112: bad_count = 0 on a new best, bad_count += 1 otherwise
DpBadCount(bad_count, better) == IF better THEN 0 ELSE bad_count + 1

\* lines 94-114: one iteration of the loop (verbose is False)
DpIterate ==
    /\ dp.pc = "loop"
    /\ dp.next_t < dp.max_iter
    /\ \E grad \in dp.grad_values, val_loss \in dp.loss_values :
          LET drawn == NpRandomNormal(np_random, dp.noise_std)
              grad_priv == <<grad + drawn.noise>>
              params == Params(VecSub(dp.params.v, VecScale(dp.lr, grad_priv)),
                               Some(dp.next_t))
              better == BeatsBest(val_loss, dp.best_val)
              bad_count == DpBadCount(dp.bad_count, better)
              break == bad_count >= dp.patience
          IN  dp' = [dp EXCEPT !.t = Some(dp.next_t), !.next_t = @ + 1,
                               !.params = params,
                               !.iterates = Append(@, params),
                               !.val_history = Append(@, val_loss),
                               !.best_val = IF better THEN val_loss ELSE @,
                               !.best_params = IF better THEN params ELSE @,
                               !.bad_count = bad_count,
                               !.broke = break,
                               !.pc = IF break THEN "exit" ELSE "loop"]
    /\ np_random' = NpRandomNormal(np_random, dp.noise_std).state
    /\ UNCHANGED <<fes, prox, ces, l1>>

TotalEpsWithoutLast(stop_iter, eps_per_iter) == stop_iter * eps_per_iter

\* line 121: total_eps = (stop_iter + 1) * self.eps_per_iter
TotalEps(stop_iter, eps_per_iter) == (stop_iter + 1) * eps_per_iter

\* lines 120-122: stop_iter = t (unbound if the loop body never ran), total_eps,
\* return best_params, stop_iter, total_eps, val_history
DpReturn ==
    /\ \/ dp.pc = "exit"
       \/ dp.pc = "loop" /\ dp.next_t >= dp.max_iter
    /\ dp' = IF dp.t = None
             THEN [dp EXCEPT !.pc = "error", !.error = Some("UnboundLocalError")]
             ELSE [dp EXCEPT !.pc = "done", !.stop_iter = dp.t,
                             !.total_eps = Some(TotalEps(dp.t[1], dp.eps_per_iter)),
                             !.ret_params = Some(dp.best_params),
                             !.results = Append(@,
                                 [best_params |-> dp.best_params.v,
                                  stop_iter |-> dp.t[1],
                                  total_eps |-> TotalEps(dp.t[1], dp.eps_per_iter)])]
    /\ UNCHANGED <<fes, prox, np_random, ces, l1>>

NextDP == DpFit \/ DpIterate \/ DpReturn

SpecDP == InitDP /\ [][NextDP]_vars

(***************************************************************************)
(* ComponentEarlyStopping (src/component_early_stopping.py)                *)
(***************************************************************************)
\* model.named_parameters() of a linear layer, in iteration order
ParamNames == <<"weight", "bias">>
\* the tensors a backward pass may leave in param.grad (norms 0, sqrt 2, 2)
Grads == {<<0, 0>>, <<1, 1>>, <<2, 0>>}
\* threshold, in the units of the gradient entries
Thresholds == {0, 1, 2}

GradAtMostThreshold(grad, threshold) ==
    threshold >= 0 /\ SqNorm(grad) <= threshold * threshold

\* lines 71-72: param.grad.norm().item() < self.threshold (the norm is
\* Euclidean, so for a positive threshold the squares compare alike)
GradBelowThreshold(grad, threshold) ==
    threshold > 0 /\ SqNorm(grad) < threshold * threshold

HasGrad(param) == param.grad # None

\* lines 67-70: apply skips a parameter that is not trainable or has no gradient
Considered(param) == param.requires_grad /\ param.grad # None

ResetFlagKept(requires_grad) == requires_grad

\* lines 83-84: if not param.requires_grad: param.requires_grad_(True)
ResetFlag(requires_grad) == IF ~requires_grad THEN TRUE ELSE requires_grad

SummaryShared(frozen_params) == [list |-> frozen_params, shared |-> TRUE]

\* line 89: list(self.frozen_params), a new list object: shared tells whether
\* the returned object is the tracker's own list
SummaryCopy(frozen_params) == [list |-> frozen_params, shared |-> FALSE]

\* __init__ (lines 45-49) on a model whose parameters have the given
\* requires_grad flags and no gradient yet.  op is the last operation made,
\* newly_frozen what the last apply returned, returned the concatenation of
\* what apply returned since the last reset (or construction), summary the
\* list object the last summary() returned (None before), resets the number
\* of calls of reset, times_frozen how often apply froze each parameter,
\* initial the requires_grad flags the model was handed over with
CesNew(threshold, flags) ==
    [pc |-> "live", threshold |-> threshold,
     params |-> [i \in 1..Len(ParamNames) |->
                    [name |-> ParamNames[i], requires_grad |-> flags[i], grad |-> None]],
     frozen_params |-> <<>>,
     op |-> "init", newly_frozen |-> <<>>, returned |-> <<>>, summary |-> None,
     resets |-> 0, times_frozen |-> [i \in 1..Len(ParamNames) |-> 0],
     initial |-> flags]

InitComponent ==
    /\ ces \in {CesNew(th, fl) : th \in Thresholds,
                                 fl \in [1..Len(ParamNames) -> BOOLEAN]}
    /\ fes = [pc |-> "absent"]
    /\ prox = [pc |-> "absent"]
    /\ dp = [pc |-> "absent"]
    /\ np_random = 0
    /\ l1 = [pc |-> "absent"]

\* the training loop between two calls: a backward pass or zero_grad leaves a
\* gradient (or None) in one parameter
CesSetGrad ==
    /\ ces.pc = "live"
    /\ \E i \in 1..Len(ParamNames), g \in {None} \cup {Some(gr) : gr \in Grads} :
          /\ ces.params[i].grad # g
          /\ ces' = [ces EXCEPT !.params[i].grad = g, !.op = "grad"]
    /\ UNCHANGED <<fes, prox, dp, np_random, l1>>

\* apply (lines 51-78), verbose False
CesApplyResult(s) ==
    LET Hit(param) == Considered(param) /\ GradBelowThreshold(param.grad[1], s.threshold)
        hits == SelectSeq(s.params, Hit)
        newly_frozen == [k \in 1..Len(hits) |-> hits[k].name]
    IN  [s EXCEPT !.params = [i \in 1..Len(s.params) |->
                                 IF Hit(s.params[i])
                                 THEN [s.params[i] EXCEPT !.requires_grad = FALSE]
                                 ELSE s.params[i]],
                  !.frozen_params = @ \o newly_frozen,
                  !.newly_frozen = newly_frozen,
                  !.returned = @ \o newly_frozen,
                  !.times_frozen = [i \in 1..Len(s.params) |->
                                       IF Hit(s.params[i]) THEN @[i] + 1 ELSE @[i]],
                  !.op = "apply"]

CesApply ==
    /\ ces.pc = "live"
    /\ ces' = CesApplyResult(ces)
    /\ UNCHANGED <<fes, prox, dp, np_random, l1>>

\* reset (lines 80-85)
CesReset ==
    /\ ces.pc = "live"
    /\ ces.resets < MaxResets
    /\ ces' = [ces EXCEPT !.params = [i \in 1..Len(ces.params) |->
                              [ces.params[i] EXCEPT !.requires_grad = ResetFlag(@)]],
                          !.frozen_params = <<>>,
                          !.returned = <<>>,
                          !.resets = @ + 1,
                          !.op = "reset"]
    /\ UNCHANGED <<fes, prox, dp, np_random, l1>>

\* summary (lines 87-89)
CesSummary ==
    /\ ces.pc = "live"
    /\ ces' = [ces EXCEPT !.summary = Some(SummaryCopy(ces.frozen_params)),
                          !.op = "summary"]
    /\ UNCHANGED <<fes, prox, dp, np_random, l1>>

\* the caller empties the list summary() gave it (returned_list.clear()); if
\* that object were the tracker's own list, the tracker's list would be emptied
CesCallerClears ==
    /\ ces.pc = "live"
    /\ ces.summary # None
    /\ ces.summary[1].list # <<>>
    /\ ces' = [ces EXCEPT !.summary = Some([ces.summary[1] EXCEPT !.list = <<>>]),
                          !.frozen_params = IF ces.summary[1].shared THEN <<>> ELSE @,
                          !.op = "clear"]
    /\ UNCHANGED <<fes, prox, dp, np_random, l1>>

NextComponent == CesSetGrad \/ CesApply \/ CesReset \/ CesSummary \/ CesCallerClears

SpecComponent == InitComponent /\ [][NextComponent]_vars

(***************************************************************************)
(* All objects: a behaviour constructs one of them and uses it             *)
(***************************************************************************)
Init == InitFairness \/ InitProximal \/ InitDP \/ InitComponent \/ InitL1

Next == NextFairness \/ NextProximal \/ NextDP \/ NextComponent \/ NextL1

Spec == Init /\ [][Next]_vars

(***************************************************************************)
(* Claims about FairnessEarlyStopping (checked under SpecFairness)         *)
(***************************************************************************)
\* the call of step a step of the behaviour makes is call number LastCall'
LastCall == Len(fes.rets)
IsConstant(values) == \A i \in 1..Len(values) : values[i] = values[1]
IsStrictlyDecreasing(values) ==
    \A i \in 1..Len(values) : \A j \in 1..Len(values) : i < j => values[i] > values[j]
HasStopped(rets) == \E i \in 1..Len(rets) : rets[i]
FirstStop(rets) == CHOOSE i \in 1..Len(rets) : rets[i] /\ \A j \in 1..(i - 1) : ~rets[j]

\* C1: every call of step with metric value v: if v + min_delta < best_metric
\* (strictly) then afterwards best_metric = v and num_bad_epochs = 0; otherwise
\* (equality included) best_metric is unchanged and num_bad_epochs is its
\* previous value plus 1.
C1_StepTransition ==
    [][LastCall' > LastCall =>
       LET v == fes'.values[LastCall']
       IN  IF v + fes.min_delta < fes.best_metric
           THEN fes'.best_metric = v /\ fes'.num_bad_epochs = 0
           ELSE /\ fes'.best_metric = fes.best_metric
                /\ fes'.num_bad_epochs = fes.num_bad_epochs + 1]_vars

\* a tie (value + min_delta = best_metric) was counted as a bad epoch, and the
\* call after it improved and reset the counter
C1_Witness ==
    /\ Len(fes.values) = 3
    /\ fes.values[2] + fes.min_delta = fes.values[1]
    /\ fes.rets[2] = FALSE
    /\ fes.values[3] + fes.min_delta < fes.values[1]
    /\ fes.best_metric = fes.values[3]
    /\ fes.num_bad_epochs = 0

\* C2: step returns True iff, after its counter update, num_bad_epochs >=
\* patience; returning True it sets stopped_epoch to its epoch argument,
\* returning False it leaves stopped_epoch as it was (None on a fresh instance).
C2_StopDecision ==
    [][LastCall' > LastCall =>
       /\ LastCall = 0 => fes.stopped_epoch = None
       /\ fes'.rets[LastCall'] = (fes'.num_bad_epochs >= fes.patience)
       /\ fes'.rets[LastCall'] => fes'.stopped_epoch = Some(fes'.epochs[LastCall'])
       /\ ~fes'.rets[LastCall'] => fes'.stopped_epoch = fes.stopped_epoch]_vars

\* a call returned False and left stopped_epoch None, the next returned True
\* and recorded its epoch argument (which differs from the call count)
C2_Witness ==
    /\ Len(fes.rets) = 3
    /\ fes.epoch0 = 1
    /\ fes.rets = <<FALSE, FALSE, TRUE>>
    /\ fes.num_bad_epochs = fes.patience
    /\ fes.stopped_epoch = Some(3)

\* C3: once a call of step has returned True, every later call returns True and
\* stopped_epoch keeps the epoch of the first call that returned True (stated
\* for patience >= 1, where the first True follows patience bad epochs).
C3_StopIsTerminal ==
    (fes.pc = "live" /\ fes.patience >= 1 /\ HasStopped(fes.rets)) =>
        /\ \A j \in FirstStop(fes.rets)..Len(fes.rets) : fes.rets[j]
        /\ fes.stopped_epoch = Some(fes.epochs[FirstStop(fes.rets)])

\* C4 as claimed: a fresh controller with min_delta = 0 and patience >= 1, fed a
\* constant metric at indices 0, 1, 2, ..., first returns True at index
\* patience - 1 and then stopped_epoch = patience - 1.
C4_ConstantStopsAtPatienceMinus1 ==
    (/\ fes.pc = "live" /\ fes.min_delta = 0 /\ fes.patience >= 1 /\ fes.epoch0 = 0
     /\ IsConstant(fes.values) /\ Len(fes.rets) = fes.patience)
    => /\ HasStopped(fes.rets)
       /\ FirstStop(fes.rets) = fes.patience
       /\ fes.stopped_epoch = Some(fes.patience - 1)

\* C4 amended: a fresh controller with min_delta = 0 and patience >= 1, fed a
\* constant finite metric at indices 0, 1, 2, ..., returns False at indices
\* 0..patience-1 (stopped_epoch still None) and first returns True at index
\* patience, where it sets stopped_epoch = patience.
C4_ConstantStopsAtPatience ==
    (/\ fes.pc = "live" /\ fes.min_delta = 0 /\ fes.patience >= 1 /\ fes.epoch0 = 0
     /\ IsConstant(fes.values))
    => /\ \A i \in 1..Len(fes.rets) : fes.rets[i] = (i - 1 >= fes.patience)
       /\ Len(fes.rets) <= fes.patience => fes.stopped_epoch = None
       /\ Len(fes.rets) = fes.patience + 1 => fes.stopped_epoch = Some(fes.patience)

\* a constant run of patience + 1 calls, the last of which stopped
C4_Witness ==
    /\ fes.min_delta = 0 /\ fes.patience = 2 /\ fes.epoch0 = 0
    /\ fes.values = <<1, 1, 1>>
    /\ fes.rets = <<FALSE, FALSE, TRUE>>
    /\ fes.stopped_epoch = Some(2)

\* C5: a fresh controller with min_delta = 0 and patience >= 1, fed a strictly
\* decreasing sequence of metric values: num_bad_epochs is 0 after every call,
\* no call returns True and stopped_epoch stays None.
C5_DecreasingNeverStops ==
    (/\ fes.pc = "live" /\ fes.min_delta = 0 /\ fes.patience >= 1
     /\ IsStrictlyDecreasing(fes.values))
    => /\ fes.num_bad_epochs = 0
       /\ ~HasStopped(fes.rets)
       /\ fes.stopped_epoch = None

\* the longest strictly decreasing run the metric values allow, patience 1
C5_Witness ==
    /\ fes.min_delta = 0 /\ fes.patience = 1
    /\ Len(fes.values) = MaxMetric + 1
    /\ IsStrictlyDecreasing(fes.values)
    /\ fes.best_metric = 0

\* C16: with metric_fn None, a call of step raises (ValueError: the
\* configuration lacks a metric) instead of returning a decision, and
\* best_metric, num_bad_epochs and stopped_epoch are as before the call.
C16_MissingMetricFnRaises ==
    [][(fes.pc = "live" /\ fes.metric_fn = None) =>
          /\ fes'.raised = Append(fes.raised, "ValueError")
          /\ fes'.rets = fes.rets
          /\ fes'.best_metric = fes.best_metric
          /\ fes'.num_bad_epochs = fes.num_bad_epochs
          /\ fes'.stopped_epoch = fes.stopped_epoch]_vars

\* two calls of step on a controller without metric_fn both raised
C16_Witness ==
    /\ fes.pc = "live" /\ fes.metric_fn = None
    /\ fes.raised = <<"ValueError", "ValueError">>
    /\ fes.rets = <<>>
    /\ fes.best_metric = Inf /\ fes.num_bad_epochs = 0 /\ fes.stopped_epoch = None

\* C18: a negative patience, a non-positive step_size and a non-positive
\* threshold are rejected when the controller, solver or tracker is
\* constructed, so no call of step, fit or apply ever runs with patience < 0,
\* step_size <= 0 or threshold <= 0.
C18_InvalidHyperparametersRejected ==
    /\ (fes.pc = "live" /\ Len(fes.rets) > 0) => fes.patience >= 0
    /\ prox.pc \in {"loop", "exit", "done", "error"} =>
          (prox.patience >= 0 /\ prox.step_size > 0)
    /\ dp.pc \in {"loop", "exit", "done", "error"} => dp.patience >= 0
    /\ (ces.pc = "live" /\ ces.op = "apply") => ces.threshold > 0

(***************************************************************************)
(* Claims about ProximalEarlyStopping (checked under SpecProximal)         *)
(***************************************************************************)
\* the number of trailing TRUE entries of a log
RECURSIVE TrailingTrue(_)
TrailingTrue(log) ==
    IF log = <<>> \/ ~log[Len(log)] THEN 0
    ELSE 1 + TrailingTrue(SubSeq(log, 1, Len(log) - 1))

\* iteration t (0-indexed) ends patience consecutive iterations below tol
EndsBelowTolRun(log, patience, t) ==
    /\ t + 1 >= patience
    /\ t + 1 <= Len(log)
    /\ \A i \in (t - patience + 1)..t : log[i + 1]

\* C6: fit (patience >= 1) halts at the smallest iteration index t such that the
\* relative drift was below tol at each of the iterations t-patience+1..t and
\* returns that t as stop_iter; an iteration whose drift is not below tol resets
\* the consecutive counter to 0, so the counter is the length of the current
\* run of below-tol iterations.
C6_HaltsAtFirstBelowTolRun ==
    (prox.pc \in {"loop", "exit", "done"} /\ prox.patience >= 1) =>
        LET n == Len(prox.below)
        IN  /\ prox.patience_counter = TrailingTrue(prox.below)
            /\ \A t \in 0..(n - 2) : ~EndsBelowTolRun(prox.below, prox.patience, t)
            /\ prox.pc = "exit" => EndsBelowTolRun(prox.below, prox.patience, n - 1)
            /\ prox.pc = "done" =>
                  /\ prox.stop_iter = Some(n - 1)
                  /\ \/ EndsBelowTolRun(prox.below, prox.patience, n - 1)
                     \/ n = prox.max_iter

\* a call with patience 2 that met a below-tol iteration followed by a reset,
\* did not stop there, and halted on the first two consecutive ones
C6_Witness ==
    /\ prox.pc = "done"
    /\ prox.patience = 2
    /\ prox.broke
    /\ prox.below = <<FALSE, TRUE, FALSE, TRUE, TRUE>>
    /\ prox.stop_iter = Some(4)

IsEndToEnd ==
    /\ prox.pc # "absent"
    /\ prox.design = Identity(5) /\ prox.response = Ones(5)
    /\ prox.lam = 0 /\ prox.step_size = 1
    /\ prox.tol = DefaultTol /\ prox.patience = DefaultPatience
    /\ prox.max_iter = DefaultMaxIter

\* C8: the run with design = 5x5 identity, response = ones, lam = 0,
\* step_size = 1 and default tol, patience, max_iter has x = response after its
\* first iteration and at every later one, and halts by the tolerance-patience
\* condition with stop_iter < max_iter - 1.
C8_EndToEndIdentity ==
    IsEndToEnd =>
        /\ \A i \in 1..Len(prox.history) : prox.history[i] = prox.response
        /\ prox.next_t >= 1 => prox.x = prox.response
        /\ prox.pc # "error"
        /\ prox.pc \in {"exit", "done"} => prox.broke
        /\ prox.pc = "done" =>
              /\ prox.stop_iter # None
              /\ prox.stop_iter[1] < prox.max_iter - 1

\* the first call of fit of the end-to-end run has returned
C8_Witness ==
    /\ IsEndToEnd
    /\ prox.pc = "done" /\ prox.calls = 1
    /\ prox.x = Ones(5)
    /\ prox.stop_iter = Some(5)
    /\ Len(prox.history) = 6

\* C7: for every max_iter >= 0, when the stopping condition is never met,
\* ProximalEarlyStopping.fit and DPSGDEarlyStopping.fit end without an error
\* after exactly max_iter iterations and report stop_iter = max_iter - 1.
C7_ExhaustedBudgetIsNormal ==
    /\ (prox.pc \in {"done", "error"} /\ ~prox.broke) =>
          /\ prox.pc = "done"
          /\ Len(prox.below) = prox.max_iter
          /\ prox.stop_iter = Some(prox.max_iter - 1)
    /\ (dp.pc \in {"done", "error"} /\ ~dp.broke) =>
          /\ dp.pc = "done"
          /\ Len(dp.val_history) = dp.max_iter
          /\ dp.stop_iter = Some(dp.max_iter - 1)

(***************************************************************************)
(* Claims about DPSGDEarlyStopping (checked under SpecDP)                  *)
(***************************************************************************)
\* the earliest position of the lowest entry of a non-empty sequence
EarliestLowest(losses) ==
    CHOOSE k \in 1..Len(losses) :
        /\ \A j \in 1..Len(losses) : losses[k] <= losses[j]
        /\ \A j \in 1..(k - 1) : losses[j] > losses[k]

C19_SoftThresholding ==
    l1.pc = "returned" =>
        LET x == l1.x
            t == l1.threshold
            out == l1.out[1]
        IN  /\ Len(out) = Len(x)
            /\ t = 0 => out = x
            /\ \A i \in 1..Len(x) :
                  /\ Abs(out[i]) <= Abs(x[i])
                  /\ out[i] = 0 \/ (out[i] > 0 /\ x[i] > 0) \/ (out[i] < 0 /\ x[i] < 0)
                  /\ out[i] = IF x[i] > t THEN x[i] - t
                              ELSE IF x[i] < 0 - t THEN x[i] + t ELSE 0

\* an entry shrunk towards 0 and one clamped to 0
C19_Witness ==
    /\ l1.pc = "returned"
    /\ l1.x = <<0 - 2, 1>> /\ l1.threshold = 1
    /\ l1.out = Some(<<0 - 1, 0>>)

\* C17: if the objective or the parameter vector becomes NaN or infinite at some
\* iteration of ProximalEarlyStopping.fit, the call is aborted at that
\* iteration with a numerical-instability error: no further iteration runs on
\* the non-finite state (stated for the first call on an instance) and fit
\* never returns normally with a non-finite x.
C17_NonFiniteAborts ==
    /\ prox.pc = "done" => (AllFinite(prox.x) /\ prox.obj_values[Len(prox.obj_values)] # NaN)
    /\ (prox.pc \in {"loop", "exit", "done", "error"} /\ prox.calls = 1) =>
          \A k \in 1..(Len(prox.history) - 1) :
              AllFinite(prox.history[k]) /\ prox.obj_values[k] # NaN
    /\ (prox.pc \in {"done", "error"} /\ ~AllFinite(prox.x)) =>
          prox.error = Some("NumericalInstabilityError")

\* C20: every call of ProximalEarlyStopping.fit on an instance, a second or
\* later one included, returns an objective history and leaves a snapshot
\* history that hold exactly one entry per iteration that call executed
\* (stop_iter + 1 entries).
C20_HistoriesPerCall ==
    prox.pc = "done" =>
        /\ Len(prox.obj_values) = prox.stop_iter[1] + 1
        /\ Len(prox.history) = prox.stop_iter[1] + 1

\* C11: two calls of fit with the same configuration and the same inputs
\* (deterministic loss_fn and grad_fn, initial_params = None) return the same
\* best_params, stop_iter and total_eps, whatever calls of fit ran before or
\* between them: the noise of a call does not depend on the process-wide
\* generator state the earlier calls left behind.
C11_SameInputsSameResults ==
    (/\ dp.pc # "absent"
     /\ Cardinality(dp.loss_values) = 1 /\ Cardinality(dp.grad_values) = 1)
    => \A i \in 1..Len(dp.results) : \A j \in 1..Len(dp.results) :
          dp.results[i] = dp.results[j]

(***************************************************************************)
(* Claims about ComponentEarlyStopping (checked under SpecComponent)       *)
(***************************************************************************)
\* the position of a name in model.named_parameters()
ParamIndex(name) == CHOOSE i \in 1..Len(ParamNames) : ParamNames[i] = name
NoDuplicates(list) ==
    \A a \in 1..Len(list) : \A b \in 1..Len(list) : list[a] = list[b] => a = b
Listed(name, list) == \E a \in 1..Len(list) : list[a] = name
\* parameter i is trainable, has a gradient, and its gradient norm is strictly
\* below the threshold
ToFreeze(s, i) ==
    /\ s.params[i].requires_grad
    /\ s.params[i].grad # None
    /\ s.threshold > 0
    /\ SqNorm(s.params[i].grad[1]) < s.threshold * s.threshold

\* C12: a call of apply freezes exactly the parameters that are trainable, have
\* a gradient and whose gradient norm is strictly below the threshold; it
\* returns exactly their names, in the order of named_parameters; the trainable
\* flag of every other parameter is as before.
C12_ApplyFreezesExactly ==
    [][ces'.op = "apply" =>
          /\ \A i \in 1..Len(ParamNames) :
                ces'.params[i].requires_grad =
                    (ces.params[i].requires_grad /\ ~ToFreeze(ces, i))
          /\ \A i \in 1..Len(ParamNames) :
                Listed(ParamNames[i], ces'.newly_frozen) <=> ToFreeze(ces, i)
          /\ NoDuplicates(ces'.newly_frozen)
          /\ \A a \in 1..Len(ces'.newly_frozen) : \A b \in 1..Len(ces'.newly_frozen) :
                a < b => ParamIndex(ces'.newly_frozen[a]) < ParamIndex(ces'.newly_frozen[b])]_vars

\* apply froze bias (norm sqrt 2 < 2) and left weight, whose gradient norm
\* equals the threshold, trainable
C12_Witness ==
    /\ ces.pc = "live" /\ ces.op = "apply"
    /\ ces.threshold = 2
    /\ ces.newly_frozen = <<"bias">>
    /\ ces.params[1].requires_grad /\ ces.params[1].grad = Some(<<2, 0>>)
    /\ ~ces.params[2].requires_grad /\ ces.params[2].grad = Some(<<1, 1>>)

\* C13: over calls of apply with arbitrary gradients and no reset between, a
\* parameter the tracker froze stays non-trainable and is not frozen or listed
\* again: the frozen list has no duplicates, and between two resets apply
\* freezes a parameter at most once.  After a reset it can be frozen again.
C13_FrozenOnceUntilReset ==
    ces.pc = "live" =>
        /\ \A i \in 1..Len(ParamNames) :
              Listed(ParamNames[i], ces.frozen_params) => ~ces.params[i].requires_grad
        /\ NoDuplicates(ces.frozen_params)
        /\ \A i \in 1..Len(ParamNames) : ces.times_frozen[i] <= ces.resets + 1

\* weight was frozen, a reset made it trainable, and a later apply froze it a
\* second time
C13_Witness ==
    /\ ces.pc = "live" /\ ces.op = "apply"
    /\ ces.resets = 1
    /\ ces.times_frozen[1] = 2
    /\ ces.frozen_params = <<"weight">>
    /\ ~ces.params[1].requires_grad

\* C14: right after reset(), in whatever state it was called, summary() is
\* empty and every parameter of the model is trainable, those that were
\* non-trainable before the tracker froze anything included.
C14_ResetUnfreezesAll ==
    (ces.pc = "live" /\ ces.op = "reset") =>
        /\ SummaryCopy(ces.frozen_params).list = <<>>
        /\ \A i \in 1..Len(ParamNames) : ces.params[i].requires_grad

\* the model was handed over with weight non-trainable, the tracker never froze
\* it, and reset made it trainable
C14_Witness ==
    /\ ces.pc = "live" /\ ces.op = "reset"
    /\ ~ces.initial[1]
    /\ ces.times_frozen[1] = 0
    /\ ces.times_frozen[2] = 1
    /\ ces.params[1].requires_grad /\ ces.params[2].requires_grad

\* C15: after any sequence of apply and reset, summary() is the in-order
\* concatenation of the lists apply returned since the last reset (or since
\* construction); summary() changes no state of the tracker or the model and
\* returns that list; the caller changing the returned list leaves the
\* tracker's list, and so later results of summary(), as they were.
C15_SummaryIsConcatenation ==
    [][/\ ces'.frozen_params = ces'.returned
       /\ ces'.op = "summary" =>
             /\ ces'.summary[1].list = ces.returned
             /\ ces'.frozen_params = ces.frozen_params
             /\ ces'.params = ces.params
             /\ ces'.threshold = ces.threshold
       /\ ces'.op = "clear" =>
             /\ ces'.frozen_params = ces.frozen_params
             /\ ces'.params = ces.params]_vars

\* after a reset two calls of apply returned <<"bias">> and <<"weight">>;
\* summary() returned their concatenation and the caller emptied its copy
C15_Witness ==
    /\ ces.pc = "live" /\ ces.op = "clear"
    /\ ces.resets = 1
    /\ ces.frozen_params = <<"bias", "weight">>
    /\ ces.summary = Some([list |-> <<>>, shared |-> FALSE])

\* the last position of a sequence of losses whose entry is strictly below
\* every earlier entry (0 for the empty sequence; position 1 always qualifies)
LastNewLow(losses) ==
    IF losses = <<>> THEN 0
    ELSE CHOOSE k \in 1..Len(losses) :
            /\ \A j \in 1..(k - 1) : losses[k] < losses[j]
            /\ \A m \in (k + 1)..Len(losses) :
                  \E j \in 1..(m - 1) : losses[m] >= losses[j]
\* the iterations executed since that one, after the first n iterations
BadSince(losses, n) == n - LastNewLow(SubSeq(losses, 1, n))

\* C21: in DPSGDEarlyStopping.fit with patience >= 1 (finite validation
\* losses), at the end of every iteration bad_count is the number of iterations
\* executed since the last one whose validation loss was strictly below every
\* earlier one; bad_count stays in 0..patience; the loop goes on only while
\* bad_count < patience and exits at the first iteration where bad_count
\* reaches patience, with stop_iter that iteration's index and
\* len(val_history) = stop_iter + 1.
C21_BadCountRun ==
    (dp.pc \in {"loop", "exit", "done"} /\ dp.patience >= 1) =>
        LET n == Len(dp.val_history)
        IN  /\ dp.bad_count = BadSince(dp.val_history, n)
            /\ dp.bad_count \in 0..dp.patience
            /\ \A m \in 0..(n - 1) : BadSince(dp.val_history, m) < dp.patience
            /\ dp.pc = "loop" => dp.bad_count < dp.patience
            /\ dp.pc = "exit" => dp.bad_count = dp.patience
            /\ dp.pc = "done" =>
                  /\ dp.stop_iter = Some(n - 1)
                  /\ Len(dp.val_history) = dp.stop_iter[1] + 1
                  /\ dp.broke <=> dp.bad_count = dp.patience

\* a call with patience 2: a tie (bad), a new low that reset the count, then
\* two bad iterations, the second of which ended the loop at index 4
C21_Witness ==
    /\ dp.pc = "done"
    /\ dp.patience = 2
    /\ dp.val_history = <<2, 2, 1, 1, 2>>
    /\ dp.broke
    /\ dp.bad_count = 2
    /\ dp.stop_iter = Some(4)

====
